---- MODULE Spec2Model ----
(***************************************************************************)
(* Request pipeline of the FastAPI application built by create_application *)
(* (src/app/main.py): the middleware registered by setup_middleware, the   *)
(* router, and the four exception handlers registered by                   *)
(* setup_exception_handlers.  Each request runs as a coroutine; the steps  *)
(* of a request are the code between two awaits of call_next.              *)
(***************************************************************************)
EXTENDS Integers, Sequences, FiniteSets, TLC

VARIABLES
    environ,      \* os.environ: the variables Settings reads
    startup,      \* "importing", "running", or "failed" when the import raised
    settings,     \* the Settings singleton (fields read by the pipeline)
    next_uuid,    \* number of uuid4() values drawn so far
    phase,        \* per request: position of its coroutine
    req,          \* per request: the inbound HTTP request
    state,        \* per request: request.state
    result,       \* per request: what the innermost finished call produced
    raised,       \* per request: the exception the router or endpoint raised
    log,          \* per request: log records emitted while serving it
    trace         \* per request: components entered, in order

vars == <<environ, startup, settings, next_uuid, phase, req, state, result, raised, log, trace>>

\* requests served concurrently by the worker, in their order of arrival
Arrivals == <<"r1", "r2">>
Requests == {Arrivals[i] : i \in DOMAIN Arrivals}

----------------------------------------------------------------------------
(* Python values *)

None == [py |-> "None"]
Dict(items) == [py |-> "dict", items |-> items]
List(items) == [py |-> "list", items |-> items]
EmptyDict == Dict({})

\* a header the request does not carry, a variable the environment does not set
Absent == "<absent>"

\* truthiness of an Optional[Dict]
Falsy(v) == v = None \/ v = EmptyDict

\* response.headers[name] = value
SetHeader(headers, name, value) ==
    {h \in headers : h[1] # name} \cup {<<name, value>>}

HeaderValues(headers, name) == {h[2] : h \in {g \in headers : g[1] = name}}

\* variant: the id is drawn once and reused for every request
UUIDs_drawn_once == <<"uuid-1", "uuid-1">>

\* str(uuid.uuid4()): the n-th value drawn
UUIDs == <<"uuid-1", "uuid-2">>

----------------------------------------------------------------------------
(* Settings *)

ALLOWED_HOSTS_default == <<"*">>
ALLOWED_HOSTS_list == <<"example.com">>
CORS_ORIGINS == {"http://localhost:3000", "http://localhost:8000"}

\* app.__version__, the constant of the package
__version__ == "1.0.0"

\* Field(default=...)
Defaults ==
    [APP_VERSION |-> "1.0.0", ENVIRONMENT |-> "development", DEBUG |-> FALSE,
     LOG_LEVEL |-> "INFO", ALLOWED_HOSTS |-> ALLOWED_HOSTS_default]

\* str.lower() of the ENVIRONMENT values in use
lower(v) ==
    CASE v = "Production" -> "production"
      [] v = "STAGING" -> "staging"
      [] OTHER -> v

\* str.upper() of the LOG_LEVEL values in use
upper(v) ==
    CASE v = "debug" -> "DEBUG"
      [] v = "verbose" -> "VERBOSE"
      [] OTHER -> v

\* outcome of a field validator
Valid(v) == [ok |-> TRUE, value |-> v]
Invalid(text) == [ok |-> FALSE, error |-> [cls |-> "ValueError", args |-> <<text>>]]

\* variant: an unrecognized value falls back to the default instead of raising
validate_environment_defaulting(v) ==
    LET allowed == {"development", "staging", "production"} IN
    IF lower(v) \notin allowed THEN Valid(Defaults.ENVIRONMENT) ELSE Valid(lower(v))

validate_environment(v) ==
    LET allowed == {"development", "staging", "production"} IN
    IF lower(v) \notin allowed
    THEN Invalid("ENVIRONMENT must be one of ['development', 'staging', 'production']")
    ELSE Valid(lower(v))

validate_log_level(v) ==
    LET allowed == {"DEBUG", "INFO", "WARNING", "ERROR", "CRITICAL"} IN
    IF upper(v) \notin allowed
    THEN Invalid("LOG_LEVEL must be one of ['DEBUG', 'INFO', 'WARNING', 'ERROR', 'CRITICAL']")
    ELSE Valid(upper(v))

\* parsing of the bool and List[str] variables in use
ParseBool(v) == v = "true"
ParseList(v) == IF v = "[\"example.com\"]" THEN ALLOWED_HOSTS_list ELSE <<>>

\* Settings(): every variable that is set is parsed and validated, the others
\* take their defaults (which are not validated); one failing validator makes
\* the constructor raise
Settings(env) ==
    LET ENVIRONMENT == IF env.ENVIRONMENT = Absent THEN Valid(Defaults.ENVIRONMENT)
                       ELSE validate_environment(env.ENVIRONMENT)
        LOG_LEVEL == IF env.LOG_LEVEL = Absent THEN Valid(Defaults.LOG_LEVEL)
                     ELSE validate_log_level(env.LOG_LEVEL)
    IN  IF ~ENVIRONMENT.ok \/ ~LOG_LEVEL.ok
        THEN [ok |-> FALSE,
              error |-> [cls |-> "ValidationError",
                         args |-> <<IF ENVIRONMENT.ok THEN LOG_LEVEL.error
                                    ELSE ENVIRONMENT.error>>]]
        ELSE Valid([APP_VERSION |-> IF env.APP_VERSION = Absent
                                    THEN Defaults.APP_VERSION ELSE env.APP_VERSION,
                    ENVIRONMENT |-> ENVIRONMENT.value,
                    DEBUG |-> IF env.DEBUG = Absent
                              THEN Defaults.DEBUG ELSE ParseBool(env.DEBUG),
                    LOG_LEVEL |-> LOG_LEVEL.value,
                    ALLOWED_HOSTS |-> IF env.ALLOWED_HOSTS = Absent
                                      THEN Defaults.ALLOWED_HOSTS
                                      ELSE ParseList(env.ALLOWED_HOSTS)])

\* no Settings object exists
NoSettings == [py |-> "None"]

\* environments of the deployments whose request pipeline is explored
PipelineEnvirons ==
    [APP_VERSION : {Absent}, ENVIRONMENT : {Absent}, LOG_LEVEL : {Absent},
     DEBUG : {Absent, "true"}, ALLOWED_HOSTS : {Absent, "[\"example.com\"]"}]

\* environments whose loading is explored
StartupEnvirons ==
    [APP_VERSION : {Absent, "2.0.0"},
     ENVIRONMENT : {Absent, "production", "Production", "STAGING", "prod"},
     LOG_LEVEL : {Absent, "debug", "ERROR", "verbose"},
     DEBUG : {Absent}, ALLOWED_HOSTS : {Absent}]

----------------------------------------------------------------------------
(* Exceptions *)

AppException_mro == <<"AppException", "Exception">>

\* cls.__mro__ (object left out)
Mro(cls) ==
    CASE cls = "AppException" -> AppException_mro
      [] cls \in {"NotFoundException", "BadRequestException",
                  "UnauthorizedException", "ForbiddenException",
                  "ConflictException", "ValidationException",
                  "InternalServerException"} -> <<cls>> \o AppException_mro
      [] cls = "HTTPException" -> <<"HTTPException", "Exception">>
      [] cls = "RequestValidationError" ->
            <<"RequestValidationError", "ValidationException_fastapi", "Exception">>
      [] OTHER -> <<cls, "Exception">>

\* AppException.__init__
AppException(cls, message, status_code, details) ==
    [cls |-> cls,
     message |-> message,
     status_code |-> status_code,
     details |-> IF Falsy(details) THEN EmptyDict ELSE details,
     args |-> <<message>>]

NotFoundException(details) ==
    AppException("NotFoundException", "Resource not found", 404, details)
BadRequestException(details) ==
    AppException("BadRequestException", "Bad request", 400, details)
UnauthorizedException(details) ==
    AppException("UnauthorizedException", "Unauthorized", 401, details)
ForbiddenException(details) ==
    AppException("ForbiddenException", "Forbidden", 403, details)
ConflictException(details) ==
    AppException("ConflictException", "Conflict", 409, details)
ValidationException(details) ==
    AppException("ValidationException", "Validation error", 422, details)
InternalServerException(details) ==
    AppException("InternalServerException", "Internal server error", 500, details)

\* starlette HTTPException(status_code, detail)
HTTPException(status_code, detail) ==
    [cls |-> "HTTPException", status_code |-> status_code, detail |-> detail,
     args |-> <<status_code, detail>>]

\* fastapi RequestValidationError(errors)
RequestValidationError(errors) ==
    [cls |-> "RequestValidationError", errors |-> errors, args |-> <<errors>>]

\* any other exception raised with one string argument
OtherException(cls, text) == [cls |-> cls, args |-> <<text>>]

\* str(e) of an exception built with one string argument
Str(exc) == exc.args[1]

----------------------------------------------------------------------------
(* Responses *)

JSONResponse(status_code, content) ==
    [status_code |-> status_code, media_type |-> "application/json",
     headers |-> {}, body |-> content]

\* the body of a text response is the sequence of its fragments
PlainTextResponse(fragments, status_code) ==
    [status_code |-> status_code, media_type |-> "text/plain",
     headers |-> {}, body |-> fragments]

RedirectResponse(url) ==
    [status_code |-> 307, media_type |-> "",
     headers |-> {<<"location", url>>}, body |-> <<>>]

WithHeader(response, name, value) ==
    [response EXCEPT !.headers = SetHeader(@, name, value)]

----------------------------------------------------------------------------
(* request.state and logging *)

\* request.state is a bag of attributes: a set of <<name, value>>
SetAttr(st, name, value) == {a \in st : a[1] # name} \cup {<<name, value>>}

\* getattr(request.state, name, default)
\* variant: the default is dropped and a missing attribute reads as ""
GetAttr_without_default(st, name, default) ==
    IF \E a \in st : a[1] = name
    THEN (CHOOSE a \in st : a[1] = name)[2]
    ELSE ""

GetAttr(st, name, default) ==
    IF \E a \in st : a[1] = name
    THEN (CHOOSE a \in st : a[1] = name)[2]
    ELSE default

\* a log record: the message is the sequence of the fragments of its f-string
LogRecord(levelname, message, request_id) ==
    [levelname |-> levelname, message |-> message, request_id |-> request_id]

----------------------------------------------------------------------------
(* Exception handlers: each returns the response and the record it logs *)

app_exception_handler(st, exc) ==
    LET request_id == GetAttr(st, "request_id", "unknown") IN
    [logged |-> LogRecord("ERROR", <<"Application error: ", exc.message>>, request_id),
     name |-> "app_exception_handler",
     response |-> JSONResponse(exc.status_code,
        [success |-> FALSE,
         error |-> [message |-> exc.message,
                    details |-> exc.details,
                    request_id |-> request_id]])]

\* variant: the handler keeps the framework's top-level "detail" key
http_exception_handler_with_detail(st, exc) ==
    LET request_id == GetAttr(st, "request_id", "unknown") IN
    [logged |-> LogRecord("WARNING", <<"HTTP error: ", exc.detail>>, request_id),
     name |-> "http_exception_handler",
     response |-> JSONResponse(exc.status_code,
        [success |-> FALSE,
         detail |-> exc.detail,
         error |-> [message |-> exc.detail,
                    request_id |-> request_id]])]

\* variant: the handler leaves the request id out of the envelope
http_exception_handler_without_id(st, exc) ==
    LET request_id == GetAttr(st, "request_id", "unknown") IN
    [logged |-> LogRecord("WARNING", <<"HTTP error: ", exc.detail>>, request_id),
     name |-> "http_exception_handler",
     response |-> JSONResponse(exc.status_code,
        [success |-> FALSE,
         error |-> [message |-> exc.detail]])]

http_exception_handler(st, exc) ==
    LET request_id == GetAttr(st, "request_id", "unknown") IN
    [logged |-> LogRecord("WARNING", <<"HTTP error: ", exc.detail>>, request_id),
     name |-> "http_exception_handler",
     response |-> JSONResponse(exc.status_code,
        [success |-> FALSE,
         error |-> [message |-> exc.detail,
                    request_id |-> request_id]])]

validation_exception_handler(st, exc) ==
    LET request_id == GetAttr(st, "request_id", "unknown") IN
    [logged |-> LogRecord("WARNING", <<"Validation error">>, request_id),
     name |-> "validation_exception_handler",
     response |-> JSONResponse(422,
        [success |-> FALSE,
         error |-> [message |-> "Validation error",
                    details |-> exc.errors,
                    request_id |-> request_id]])]

\* variant: the handler answers with the exception's text
generic_exception_handler_leaky(st, exc) ==
    LET request_id == GetAttr(st, "request_id", "unknown") IN
    [logged |-> LogRecord("ERROR", <<"Unexpected error: ", Str(exc)>>, request_id),
     name |-> "generic_exception_handler",
     response |-> JSONResponse(500,
        [success |-> FALSE,
         error |-> [message |-> Str(exc),
                    request_id |-> request_id]])]

generic_exception_handler(st, exc) ==
    LET request_id == GetAttr(st, "request_id", "unknown") IN
    [logged |-> LogRecord("ERROR", <<"Unexpected error: ", Str(exc)>>, request_id),
     name |-> "generic_exception_handler",
     response |-> JSONResponse(500,
        [success |-> FALSE,
         error |-> [message |-> "Internal server error",
                    request_id |-> request_id]])]

\* app.add_exception_handler calls of setup_exception_handlers, in order
setup_exception_handlers ==
    <<<<"AppException", "app_exception_handler">>,
      <<"HTTPException", "http_exception_handler">>,
      <<"RequestValidationError", "validation_exception_handler">>,
      <<"Exception", "generic_exception_handler">>>>

\* the handler an exception class is registered with, "" when none
RegisteredHandler(cls) ==
    LET hits == {i \in DOMAIN setup_exception_handlers :
                    setup_exception_handlers[i][1] = cls}
    IN IF hits = {} THEN ""
       ELSE setup_exception_handlers[CHOOSE i \in hits : \A j \in hits : j <= i][2]

\* the registration for Exception goes to ServerErrorMiddleware, the others
\* to ExceptionMiddleware, which looks a raised exception up along its MRO
ExceptionMiddlewareClasses ==
    {setup_exception_handlers[i][1] : i \in DOMAIN setup_exception_handlers}
        \ {"Exception"}

\* variant: the lookup matches the exception's own class only
LookupHandler_exact_class(exc) ==
    IF exc.cls \in ExceptionMiddlewareClasses THEN RegisteredHandler(exc.cls) ELSE ""

LookupHandler(exc) ==
    LET mro == Mro(exc.cls)
        hits == {i \in DOMAIN mro : mro[i] \in ExceptionMiddlewareClasses}
    IN IF hits = {} THEN ""
       ELSE RegisteredHandler(mro[CHOOSE i \in hits : \A j \in hits : i <= j])

\* call of the handler registered under that name
CallHandler(name, st, exc) ==
    CASE name = "app_exception_handler" -> app_exception_handler(st, exc)
      [] name = "http_exception_handler" -> http_exception_handler(st, exc)
      [] name = "validation_exception_handler" -> validation_exception_handler(st, exc)
      [] name = "generic_exception_handler" -> generic_exception_handler(st, exc)

----------------------------------------------------------------------------
(* Requests *)

\* a path is the sequence of its segments; a trailing slash is a last segment ""
API_V1_PREFIX == <<"api", "v1">>

Paths ==
    {API_V1_PREFIX \o <<"health">>,
     API_V1_PREFIX \o <<"health", "">>,
     API_V1_PREFIX \o <<"items">>,
     API_V1_PREFIX \o <<"nonexistent">>}

Hosts == {"example.com", "evil.test"}

Origins == {"http://localhost:3000", "http://evil.test"}

\* the requests a client sends: requests without Origin, and preflights from
\* an allowed and from a disallowed origin
HttpRequests ==
    {q \in [method : {"GET", "OPTIONS"},
            path : Paths,
            host : Hosts,
            origin : Origins \cup {Absent},
            access_control_request_method : {"GET", Absent}] :
        /\ q.access_control_request_method # Absent
              <=> (q.method = "OPTIONS" /\ q.origin # Absent)
        /\ q.method = "GET" => q.origin = Absent}

NoRequest == [method |-> Absent]

----------------------------------------------------------------------------
(* Router *)

\* what calling an endpoint does
Return(response) == [kind |-> "response", response |-> response]
Raise(exc) == [kind |-> "raise", exc |-> exc]
NoResult == [kind |-> "none"]

\* health_check
health_check ==
    Return(JSONResponse(200, [status |-> "healthy",
                              version |-> __version__,
                              environment |-> settings.ENVIRONMENT]))

SomeDetails == Dict({<<"resource_id", "123">>})

\* exc.errors() of a request with a missing query parameter
SomeErrors == List(<<[type |-> "missing", loc |-> <<"query", "limit">>, msg |-> "Field required"]>>)

\* what an endpoint added to api_router can do: return, or raise any exception
EndpointOutcomes ==
    {Return(JSONResponse(200, [success |-> TRUE]))}
    \cup {Raise(e) : e \in
            {AppException("AppException", "Custom failure", 500, None),
             AppException("AppException", "Teapot", 418, SomeDetails),
             NotFoundException(None),
             BadRequestException(EmptyDict),
             UnauthorizedException(None),
             ForbiddenException(None),
             ConflictException(SomeDetails),
             ValidationException(None),
             InternalServerException(None)}}
    \cup {Raise(HTTPException(403, "Forbidden")),
          Raise(RequestValidationError(SomeErrors)),
          Raise(OtherException("RuntimeError", "boom"))}

\* routes of the application: path, methods, endpoint
Routes ==
    <<[path |-> API_V1_PREFIX \o <<"health">>, methods |-> {"GET"}, endpoint |-> "health_check"],
      [path |-> API_V1_PREFIX \o <<"items">>, methods |-> {"GET"}, endpoint |-> "items"]>>

ToggleSlash(path) ==
    IF path[Len(path)] = "" THEN SubSeq(path, 1, Len(path) - 1)
    ELSE path \o <<"">>

\* what a call into the stack produced: the components entered, the records
\* logged, the result, and the exception raised on the way (None when none)
Called(entered, res) ==
    [trace |-> entered, log |-> <<>>, result |-> res,
     raised |-> IF res.kind = "raise" THEN res.exc ELSE None]

\* Router.app: full match, partial match (method not allowed), slash redirect,
\* not found.  outcome is what the items endpoint does when it is called.
Router(q, outcome) ==
    LET full == {i \in DOMAIN Routes :
                    Routes[i].path = q.path /\ q.method \in Routes[i].methods}
        partial == {i \in DOMAIN Routes : Routes[i].path = q.path}
        redirect == {i \in DOMAIN Routes : Routes[i].path = ToggleSlash(q.path)}
    IN IF full # {}
       THEN LET route == Routes[CHOOSE i \in full : \A j \in full : i <= j] IN
            Called(<<"Router", route.endpoint>>,
                   IF route.endpoint = "health_check" THEN health_check ELSE outcome)
       ELSE Called(<<"Router">>,
                   IF partial # {} THEN Raise(HTTPException(405, "Method Not Allowed"))
                   ELSE IF redirect # {} /\ q.path # <<"">>
                   THEN Return(RedirectResponse(ToggleSlash(q.path)))
                   ELSE Raise(HTTPException(404, "Not Found")))

----------------------------------------------------------------------------
(* ASGI middleware without a suspension point of its own *)

\* ExceptionMiddleware: a raised exception with a registered handler becomes
\* that handler's response, any other propagates
ExceptionMiddleware(st, inner) ==
    LET name == IF inner.result.kind = "raise" THEN LookupHandler(inner.result.exc) ELSE "" IN
    IF name = ""
    THEN [inner EXCEPT !.trace = <<"ExceptionMiddleware">> \o @]
    ELSE LET h == CallHandler(name, st, inner.result.exc) IN
         [trace |-> <<"ExceptionMiddleware">> \o inner.trace \o <<h.name>>,
          log |-> inner.log \o <<h.logged>>,
          result |-> Return(h.response),
          raised |-> inner.raised]

\* "www." + host
Www(host) ==
    CASE host = "example.com" -> "www.example.com"
      [] host = "evil.test" -> "www.evil.test"

Contains(seq, x) == \E i \in DOMAIN seq : seq[i] = x

\* TrustedHostMiddleware(allowed_hosts, www_redirect=True)
TrustedHostMiddleware(allowed_hosts, q, inner) ==
    IF Contains(allowed_hosts, "*") \/ Contains(allowed_hosts, q.host)
    THEN [inner EXCEPT !.trace = <<"TrustedHostMiddleware">> \o @]
    ELSE Called(<<"TrustedHostMiddleware">>,
                IF Contains(allowed_hosts, Www(q.host))
                THEN Return(RedirectResponse(Www(q.host)))
                ELSE Return(PlainTextResponse(<<"Invalid host header">>, 400)))

\* variant: a preflight is treated as a simple cross-origin request
CORSMiddleware_without_preflight(q, inner) ==
    IF q.origin = Absent
    THEN [inner EXCEPT !.trace = <<"CORSMiddleware">> \o @]
    ELSE [inner EXCEPT
            !.trace = <<"CORSMiddleware">> \o @,
            !.result = IF @.kind = "response" /\ q.origin \in CORS_ORIGINS
                       THEN Return(WithHeader(@.response,
                                              "access-control-allow-origin", q.origin))
                       ELSE @]

\* CORSMiddleware(allow_origins=CORS_ORIGINS, allow_methods=["*"], allow_headers=["*"])
CORSMiddleware(q, inner) ==
    IF q.origin = Absent
    THEN [inner EXCEPT !.trace = <<"CORSMiddleware">> \o @]
    ELSE IF q.method = "OPTIONS" /\ q.access_control_request_method # Absent
    THEN Called(<<"CORSMiddleware">>,
                IF q.origin \in CORS_ORIGINS
                THEN Return(WithHeader(PlainTextResponse(<<"OK">>, 200),
                                       "access-control-allow-origin", q.origin))
                ELSE Return(PlainTextResponse(<<"Disallowed CORS ", "origin">>, 400)))
    ELSE [inner EXCEPT
            !.trace = <<"CORSMiddleware">> \o @,
            !.result = IF @.kind = "response" /\ q.origin \in CORS_ORIGINS
                       THEN Return(WithHeader(@.response,
                                              "access-control-allow-origin", q.origin))
                       ELSE @]

----------------------------------------------------------------------------
(* The middleware stack *)

\* app.add_middleware: user_middleware.insert(0, middleware)
add_middleware(user_middleware, middleware) == <<middleware>> \o user_middleware

setup_middleware(s) ==
    LET m0 == <<>>
        m1 == IF s.ALLOWED_HOSTS # <<"*">>
              THEN add_middleware(m0, "TrustedHostMiddleware") ELSE m0
        m2 == add_middleware(m1, "CORSMiddleware")
        m3 == add_middleware(m2, "LoggingMiddleware")
        m4 == add_middleware(m3, "RequestIDMiddleware")
    IN m4

\* create_application: the stack around the router, outermost first
create_application(s) ==
    <<"ServerErrorMiddleware">> \o setup_middleware(s) \o <<"ExceptionMiddleware", "Router">>

Stack == create_application(settings)

BaseHTTPMiddlewares == {"RequestIDMiddleware", "LoggingMiddleware"}

\* the part of the stack from position i on, run without suspension
RECURSIVE RunASGI(_, _, _, _, _)
RunASGI(i, s, q, st, outcome) ==
    LET stack == create_application(s) IN
    CASE stack[i] = "CORSMiddleware" ->
            CORSMiddleware(q, RunASGI(i + 1, s, q, st, outcome))
      [] stack[i] = "TrustedHostMiddleware" ->
            TrustedHostMiddleware(s.ALLOWED_HOSTS, q, RunASGI(i + 1, s, q, st, outcome))
      [] stack[i] = "ExceptionMiddleware" ->
            ExceptionMiddleware(st, RunASGI(i + 1, s, q, st, outcome))
      [] stack[i] = "Router" -> Router(q, outcome)

----------------------------------------------------------------------------
(* State machine *)

Idle == [at |-> 0, dir |-> "idle"]
Done == [at |-> 0, dir |-> "done"]
Call(i) == [at |-> i, dir |-> "call"]
Returning(i) == [at |-> i, dir |-> "return"]

\* no request has arrived
NoTraffic ==
    /\ next_uuid = 0
    /\ phase = [r \in Requests |-> Idle]
    /\ req = [r \in Requests |-> NoRequest]
    /\ state = [r \in Requests |-> {}]
    /\ result = [r \in Requests |-> NoResult]
    /\ raised = [r \in Requests |-> None]
    /\ log = [r \in Requests |-> <<>>]
    /\ trace = [r \in Requests |-> <<>>]

\* the application has been imported and serves
Init ==
    /\ environ \in PipelineEnvirons
    /\ startup = "running"
    /\ settings = Settings(environ).value
    /\ NoTraffic

\* A request arrives; ServerErrorMiddleware passes it to RequestIDMiddleware,
\* whose dispatch runs up to its await of call_next.
RequestIDMiddleware_call(r) ==
    /\ startup = "running"
    /\ phase[r] = Idle
    /\ Stack[2] = "RequestIDMiddleware"
    /\ next_uuid < Len(Arrivals)
    /\ r = Arrivals[next_uuid + 1]
    /\ \E q \in HttpRequests :
          LET request_id == UUIDs[next_uuid + 1] IN
          /\ req' = [req EXCEPT ![r] = q]
          /\ next_uuid' = next_uuid + 1
          /\ state' = [state EXCEPT ![r] = SetAttr(@, "request_id", request_id)]
          /\ trace' = [trace EXCEPT ![r] = <<"ServerErrorMiddleware", "RequestIDMiddleware">>]
          /\ phase' = [phase EXCEPT ![r] = Call(3)]
    /\ UNCHANGED <<environ, startup, settings, result, raised, log>>

\* LoggingMiddleware.dispatch up to its await of call_next
LoggingMiddleware_call(r) ==
    /\ phase[r].dir = "call"
    /\ Stack[phase[r].at] = "LoggingMiddleware"
    /\ LET request_id == GetAttr(state[r], "request_id", "unknown") IN
       log' = [log EXCEPT ![r] =
                 Append(@, LogRecord("INFO", <<"Request started">>, request_id))]
    /\ trace' = [trace EXCEPT ![r] = Append(@, "LoggingMiddleware")]
    /\ phase' = [phase EXCEPT ![r] = Call(phase[r].at + 1)]
    /\ UNCHANGED <<environ, startup, settings, next_uuid, req, state, result, raised>>

\* call_next of the innermost BaseHTTPMiddleware: the rest of the stack, the
\* router and the endpoint run until a response starts or an exception escapes
InnerApp(r) ==
    /\ phase[r].dir = "call"
    /\ Stack[phase[r].at] \notin BaseHTTPMiddlewares
    /\ \E outcome \in EndpointOutcomes :
          LET inner == RunASGI(phase[r].at, settings, req[r], state[r], outcome) IN
          /\ result' = [result EXCEPT ![r] = inner.result]
          /\ raised' = [raised EXCEPT ![r] = inner.raised]
          /\ log' = [log EXCEPT ![r] = @ \o inner.log]
          /\ trace' = [trace EXCEPT ![r] = @ \o inner.trace]
    /\ phase' = [phase EXCEPT ![r] = Returning(phase[r].at - 1)]
    /\ UNCHANGED <<environ, startup, settings, next_uuid, req, state>>

\* variant: the except clause re-raises without logging
request_end_records_silent_failure(request_id, res) ==
    IF res.kind = "raise"
    THEN <<>>
    ELSE <<LogRecord("INFO", <<"Request completed">>, request_id) @@
           [status_code |-> res.response.status_code]>>

\* the records LoggingMiddleware.dispatch logs once call_next has finished
request_end_records(request_id, res) ==
    IF res.kind = "raise"
    THEN <<LogRecord("ERROR", <<"Request failed">>, request_id) @@
           [error |-> Str(res.exc)]>>
    ELSE <<LogRecord("INFO", <<"Request completed">>, request_id) @@
           [status_code |-> res.response.status_code]>>

\* LoggingMiddleware.dispatch after call_next: the except clause logs and
\* re-raises, otherwise the response is logged and returned.  request_id is
\* the local read before call_next; request.state is not written in between.
LoggingMiddleware_return(r) ==
    /\ phase[r].dir = "return"
    /\ Stack[phase[r].at] = "LoggingMiddleware"
    /\ LET request_id == GetAttr(state[r], "request_id", "unknown") IN
       log' = [log EXCEPT ![r] = @ \o request_end_records(request_id, result[r])]
    /\ trace' = [trace EXCEPT ![r] =
                   Append(@, IF result[r].kind = "raise"
                             THEN "LoggingMiddleware.failed"
                             ELSE "LoggingMiddleware.completed")]
    /\ phase' = [phase EXCEPT ![r] = Returning(phase[r].at - 1)]
    /\ UNCHANGED <<environ, startup, settings, next_uuid, req, state, result, raised>>

\* RequestIDMiddleware.dispatch after call_next returned a response; the
\* response then leaves through ServerErrorMiddleware unchanged
RequestIDMiddleware_return(r) ==
    /\ phase[r].dir = "return"
    /\ Stack[phase[r].at] = "RequestIDMiddleware"
    /\ result[r].kind = "response"
    /\ LET request_id == GetAttr(state[r], "request_id", "unknown") IN
       result' = [result EXCEPT ![r] =
                    Return(WithHeader(@.response, "X-Request-ID", request_id))]
    /\ trace' = [trace EXCEPT ![r] = Append(@, "RequestIDMiddleware.header")]
    /\ phase' = [phase EXCEPT ![r] = Done]
    /\ UNCHANGED <<environ, startup, settings, next_uuid, req, state, raised, log>>

\* traceback response of ServerErrorMiddleware in debug mode
debug_response(exc) ==
    PlainTextResponse(<<"Traceback (most recent call last):", exc.cls, Str(exc)>>, 500)

\* An exception raised by call_next leaves RequestIDMiddleware.dispatch, which
\* has no except clause, and reaches ServerErrorMiddleware: in debug mode the
\* traceback response, otherwise the handler registered for Exception.
ServerErrorMiddleware_except(r) ==
    /\ phase[r].dir = "return"
    /\ Stack[phase[r].at] = "RequestIDMiddleware"
    /\ result[r].kind = "raise"
    /\ IF settings.DEBUG
       THEN /\ result' = [result EXCEPT ![r] = Return(debug_response(@.exc))]
            /\ trace' = [trace EXCEPT ![r] = Append(@, "debug_response")]
            /\ log' = log
       ELSE LET h == CallHandler(RegisteredHandler("Exception"), state[r], result[r].exc) IN
            /\ result' = [result EXCEPT ![r] = Return(h.response)]
            /\ trace' = [trace EXCEPT ![r] = Append(@, h.name)]
            /\ log' = [log EXCEPT ![r] = Append(@, h.logged)]
    /\ phase' = [phase EXCEPT ![r] = Done]
    /\ UNCHANGED <<environ, startup, settings, next_uuid, req, state, raised>>

Next ==
    \E r \in Requests :
        \/ RequestIDMiddleware_call(r)
        \/ LoggingMiddleware_call(r)
        \/ InnerApp(r)
        \/ LoggingMiddleware_return(r)
        \/ RequestIDMiddleware_return(r)
        \/ ServerErrorMiddleware_except(r)

Spec == Init /\ [][Next]_vars

\* the process before app.main is imported
InitStartup ==
    /\ environ \in StartupEnvirons
    /\ startup = "importing"
    /\ settings = NoSettings
    /\ NoTraffic

\* import of app.core.config: settings = Settings(); a ValidationError ends
\* the import, and with it the process, before the application exists
LoadSettings ==
    /\ startup = "importing"
    /\ LET loaded == Settings(environ) IN
       IF loaded.ok
       THEN settings' = loaded.value /\ startup' = "running"
       ELSE settings' = NoSettings /\ startup' = "failed"
    /\ UNCHANGED <<environ, next_uuid, phase, req, state, result, raised, log, trace>>

\* startup followed by one request
NextStartup ==
    \/ LoadSettings
    \/ RequestIDMiddleware_call(Arrivals[1])
    \/ LoggingMiddleware_call(Arrivals[1])
    \/ InnerApp(Arrivals[1])
    \/ LoggingMiddleware_return(Arrivals[1])
    \/ RequestIDMiddleware_return(Arrivals[1])
    \/ ServerErrorMiddleware_except(Arrivals[1])

SpecStartup == InitStartup /\ [][NextStartup]_vars

\* A request reaches LoggingMiddleware.dispatch although no RequestIDMiddleware
\* ran before it: request.state has no request_id.
LoggingMiddleware_outermost_call(r) ==
    /\ startup = "running"
    /\ phase[r] = Idle
    /\ \E q \in HttpRequests : req' = [req EXCEPT ![r] = q]
    /\ trace' = [trace EXCEPT ![r] = <<"ServerErrorMiddleware">>]
    /\ phase' = [phase EXCEPT ![r] = Call(3)]
    /\ UNCHANGED <<environ, startup, settings, next_uuid, state, result, raised, log>>

\* the response LoggingMiddleware.dispatch returned leaves as it is
LoggingMiddleware_outermost_return(r) ==
    /\ phase[r].dir = "return"
    /\ phase[r].at = 2
    /\ result[r].kind = "response"
    /\ phase' = [phase EXCEPT ![r] = Done]
    /\ UNCHANGED <<environ, startup, settings, next_uuid, req, state, result, raised, log, trace>>

\* one request served without RequestIDMiddleware
NextWithoutRequestID ==
    \/ LoggingMiddleware_outermost_call(Arrivals[1])
    \/ LoggingMiddleware_call(Arrivals[1])
    \/ InnerApp(Arrivals[1])
    \/ LoggingMiddleware_return(Arrivals[1])
    \/ LoggingMiddleware_outermost_return(Arrivals[1])
    \/ ServerErrorMiddleware_except(Arrivals[1])

SpecWithoutRequestID == Init /\ [][NextWithoutRequestID]_vars

----------------------------------------------------------------------------
(* Vocabulary of the properties *)

Finished(r) == phase[r] = Done

\* the response the client of a finished request received
Response(r) == result[r].response

Entered(tr, name) == \E i \in DOMAIN tr : tr[i] = name

Precedes(tr, a, b) ==
    \A i, j \in DOMAIN tr : (tr[i] = a /\ tr[j] = b) => i < j

Handlers ==
    {"app_exception_handler", "http_exception_handler",
     "validation_exception_handler", "generic_exception_handler"}

\* the response of the request was built by one of the four handlers
Handled(r) == \E h \in Handlers : Entered(trace[r], h)

AssignedId(r) == GetAttr(state[r], "request_id", "")

IsAppException(exc) == exc # None /\ Contains(Mro(exc.cls), "AppException")
IsHTTPException(exc) == exc # None /\ Contains(Mro(exc.cls), "HTTPException")
IsValidationError(exc) == exc # None /\ Contains(Mro(exc.cls), "RequestValidationError")
IsUnexpected(exc) ==
    exc # None /\ ~IsAppException(exc) /\ ~IsHTTPException(exc) /\ ~IsValidationError(exc)

HostListed(q) ==
    Contains(settings.ALLOWED_HOSTS, "*") \/ Contains(settings.ALLOWED_HOSTS, q.host)

Registered(path) == \E i \in DOMAIN Routes : Routes[i].path = path

\* success is false and error holds message and request_id, details optional
EnvelopeShape(body) ==
    /\ DOMAIN body = {"success", "error"}
    /\ body.success = FALSE
    /\ {"message", "request_id"} \subseteq DOMAIN body.error
    /\ DOMAIN body.error \subseteq {"message", "details", "request_id"}

----------------------------------------------------------------------------
(* C1 *)

\* C1: every response sent carries an X-Request-ID header whose value is
\* non-empty and is the id RequestIDMiddleware assigned to the request.
C1_EveryResponseCarriesRequestId ==
    \A r \in Requests :
        Finished(r) =>
            /\ AssignedId(r) # ""
            /\ HeaderValues(Response(r).headers, "X-Request-ID") = {AssignedId(r)}

----------------------------------------------------------------------------
(* C2 *)

\* position of a component in the order the claim states; 0 for the others
ClaimedStage(name) ==
    CASE name = "RequestIDMiddleware" -> 1
      [] name = "LoggingMiddleware" -> 2
      [] name = "TrustedHostMiddleware" -> 3
      [] name = "CORSMiddleware" -> 4
      [] name = "Router" -> 5
      [] name \in Handlers -> 6
      [] name \in {"LoggingMiddleware.completed", "LoggingMiddleware.failed"} -> 7
      [] OTHER -> 0

\* C2: for each request the stages run in the order correlation id, log
\* start, host validation, CORS, dispatch, error normalization, log end,
\* whatever the other requests do.
C2_StagesInClaimedOrder ==
    \A r \in Requests :
        \A i, j \in DOMAIN trace[r] :
            (i < j /\ ClaimedStage(trace[r][i]) > 0 /\ ClaimedStage(trace[r][j]) > 0)
                => ClaimedStage(trace[r][i]) < ClaimedStage(trace[r][j])

----------------------------------------------------------------------------
(* C3 *)

\* C3: with an allow-list configured, a request of any method whose Host is
\* not listed gets a 4xx response, is validated by the host guard before
\* CORS processes its Origin, and never reaches the router or an endpoint.
C3_UnlistedHostRejectedFirst ==
    \A r \in Requests :
        (Finished(r) /\ settings.ALLOWED_HOSTS # <<"*">> /\ ~HostListed(req[r])) =>
            /\ Response(r).status_code \in 400..499
            /\ Entered(trace[r], "TrustedHostMiddleware")
            /\ req[r].origin # Absent
                  => Precedes(trace[r], "TrustedHostMiddleware", "CORSMiddleware")
            /\ ~Entered(trace[r], "Router")

----------------------------------------------------------------------------
(* C4 *)

\* C4: every response with a 4xx or 5xx status has the JSON body
\* {success: false, error: {message, details: object or null, request_id}}
\* (a missing details key is read as null, the type of details is left open,
\* and the traceback page of debug mode is not counted).
C4_EveryErrorResponseIsEnvelope ==
    \A r \in Requests :
        (Finished(r) /\ ~settings.DEBUG /\ Response(r).status_code >= 400) =>
            /\ Response(r).media_type = "application/json"
            /\ DOMAIN Response(r).body = {"success", "error"}
            /\ Response(r).body.success = FALSE
            /\ {"message", "request_id"} \subseteq DOMAIN Response(r).body.error
            /\ DOMAIN Response(r).body.error \subseteq {"message", "details", "request_id"}

----------------------------------------------------------------------------
(* C5 *)

\* C5: whichever of the four handlers built a response, its body has the
\* top-level keys success and error only, success is false, and error holds
\* a message and a request_id, details being optional.
C5_HandlersShareEnvelopeShape ==
    \A r \in Requests :
        (result[r].kind = "response" /\ Handled(r)) =>
            /\ Response(r).media_type = "application/json"
            /\ EnvelopeShape(Response(r).body)

\* two finished requests, one answered by generic_exception_handler and one
\* by http_exception_handler
C5_Witness ==
    \E r1, r2 \in Requests :
        /\ Finished(r1) /\ Entered(trace[r1], "generic_exception_handler")
        /\ Finished(r2) /\ Entered(trace[r2], "http_exception_handler")

----------------------------------------------------------------------------
(* C6 *)

\* C6: on every error response built by a handler, error.request_id of the
\* body equals the X-Request-ID header of that response.
C6_BodyIdEqualsHeaderId ==
    \A r \in Requests :
        (Finished(r) /\ Handled(r)) =>
            HeaderValues(Response(r).headers, "X-Request-ID")
                = {Response(r).body.error.request_id}

----------------------------------------------------------------------------
(* C7 *)

\* the response to an unexpected exception: 500, the fixed message, no
\* details, nothing of the exception's text, and an ERROR record with the id
OpaqueServerError(r) ==
    /\ Response(r).status_code = 500
    /\ Response(r).media_type = "application/json"
    /\ Response(r).body.error.message = "Internal server error"
    /\ "details" \notin DOMAIN Response(r).body.error
    /\ Response(r).body.error.message # Str(raised[r])
    /\ \E i \in DOMAIN log[r] :
          /\ log[r][i].levelname = "ERROR"
          /\ log[r][i].request_id = AssignedId(r)

----------------------------------------------------------------------------
(* C8 *)

\* C8: an AppException or subclass is answered with its own status, message
\* and details and never by the generic handler; an HTTP exception with its
\* own status, its detail as message and no details; a validation error with
\* 422, "Validation error" and the violation list; anything else with 500.
C8_MostSpecificHandler ==
    \A r \in Requests :
        LET e == raised[r] IN
        /\ IsAppException(e) =>
              /\ result[r].kind = "response"
              /\ Entered(trace[r], "app_exception_handler")
              /\ ~Entered(trace[r], "generic_exception_handler")
              /\ Response(r).status_code = e.status_code
              /\ Response(r).body.error.message = e.message
              /\ Response(r).body.error.details = e.details
        /\ IsHTTPException(e) =>
              /\ result[r].kind = "response"
              /\ Entered(trace[r], "http_exception_handler")
              /\ Response(r).status_code = e.status_code
              /\ Response(r).body.error.message = e.detail
              /\ "details" \notin DOMAIN Response(r).body.error
        /\ IsValidationError(e) =>
              /\ result[r].kind = "response"
              /\ Entered(trace[r], "validation_exception_handler")
              /\ Response(r).status_code = 422
              /\ Response(r).body.error.message = "Validation error"
              /\ Response(r).body.error.details = e.errors
        /\ (IsUnexpected(e) /\ Finished(r)) =>
              Response(r).status_code = 500

\* two finished requests, one whose endpoint raised a subclass of
\* AppException and one whose endpoint raised an unexpected exception
C8_Witness ==
    \E r1, r2 \in Requests :
        /\ Finished(r1) /\ IsAppException(raised[r1])
        /\ raised[r1].cls = "ConflictException"
        /\ Finished(r2) /\ IsUnexpected(raised[r2])

----------------------------------------------------------------------------
(* C9 *)

\* the 404 of the error normalizer
NotFoundEnvelope(r) ==
    /\ Response(r).status_code = 404
    /\ Entered(trace[r], "http_exception_handler")
    /\ Response(r).media_type = "application/json"
    /\ Response(r).body.success = FALSE
    /\ Response(r).body.error.message # ""
    /\ "request_id" \in DOMAIN Response(r).body.error
    /\ Response(r).body.error.request_id # ""

----------------------------------------------------------------------------
(* C10 *)

LoggingIndex == CHOOSE i \in DOMAIN Stack : Stack[i] = "LoggingMiddleware"

StartRecords(r) ==
    {i \in DOMAIN log[r] : log[r][i].message = <<"Request started">>}
CompletedRecords(r) ==
    {i \in DOMAIN log[r] : log[r][i].message = <<"Request completed">>}
FailedRecords(r) ==
    {i \in DOMAIN log[r] : log[r][i].message = <<"Request failed">>}

----------------------------------------------------------------------------
(* C11 *)

Endpoints == {Routes[i].endpoint : i \in DOMAIN Routes}

\* the exception of the request was raised by a route handler
EndpointRaised(r) ==
    raised[r] # None /\ \E e \in Endpoints : Entered(trace[r], e)

\* C11: whenever a route handler raises, LoggingMiddleware logs "Request
\* failed" with the error's string representation, and does so before a
\* handler of the error normalizer handles the exception.
C11_FailedLoggedBeforeNormalizer ==
    \A r \in Requests :
        (EndpointRaised(r) /\ Handled(r)) =>
            /\ FailedRecords(r) # {}
            /\ \A h \in Handlers : Precedes(trace[r], "LoggingMiddleware.failed", h)
            /\ \A i \in FailedRecords(r) : log[r][i].error = Str(raised[r])

----------------------------------------------------------------------------
(* C12 *)

Assigned(r) == \E a \in state[r] : a[1] = "request_id"

\* C12: whatever the interleaving, two requests never have the same id, and
\* every X-Request-ID header, log record and error envelope of a request
\* carries the id of that request.
C12_FreshIdPerRequest ==
    \A r \in Requests :
        Assigned(r) =>
            /\ \A o \in Requests \ {r} : Assigned(o) => AssignedId(o) # AssignedId(r)
            /\ \A i \in DOMAIN log[r] : log[r][i].request_id = AssignedId(r)
            /\ result[r].kind = "response" =>
                  /\ HeaderValues(Response(r).headers, "X-Request-ID")
                        \subseteq {AssignedId(r)}
                  /\ Handled(r) => Response(r).body.error.request_id = AssignedId(r)

\* two requests in flight at once, both past dispatch, one answered with an
\* error envelope, and one finished with its header set
C12_Witness ==
    \E r1, r2 \in Requests :
        /\ r1 # r2
        /\ phase[r1].dir = "return" /\ Handled(r1)
        /\ phase[r2].dir = "return" /\ log[r2] # <<>>

----------------------------------------------------------------------------
(* C15 *)

IsPreflight(q) ==
    /\ q.method = "OPTIONS"
    /\ q.origin # Absent
    /\ q.access_control_request_method # Absent

\* C15: a preflight is answered by CORSMiddleware itself, 200 for an allowed
\* origin and 400 otherwise, and neither the router nor an endpoint is ever
\* entered for it.
C15_PreflightNeverRouted ==
    \A r \in Requests :
        (req[r] # NoRequest /\ IsPreflight(req[r])) =>
            /\ ~Entered(trace[r], "Router")
            /\ \A e \in Endpoints : ~Entered(trace[r], e)
            /\ raised[r] = None
            /\ result[r].kind # "raise"
            /\ result[r].kind = "response" =>
                  /\ trace[r][Len(trace[r])] \in
                        {"CORSMiddleware", "LoggingMiddleware.completed",
                         "RequestIDMiddleware.header"}
                  /\ ~Entered(trace[r], "TrustedHostMiddleware")
                  /\ Response(r).media_type = "text/plain"
                  /\ Response(r).status_code =
                        IF req[r].origin \in CORS_ORIGINS THEN 200 ELSE 400

\* two finished preflights, one from an allowed and one from a disallowed origin
C15_Witness ==
    \E r1, r2 \in Requests :
        /\ Finished(r1) /\ IsPreflight(req[r1]) /\ req[r1].origin \in CORS_ORIGINS
        /\ Finished(r2) /\ IsPreflight(req[r2]) /\ req[r2].origin \notin CORS_ORIGINS

----------------------------------------------------------------------------
(* C13 *)

----------------------------------------------------------------------------
(* C14 *)

Environments == {"development", "staging", "production"}
LogLevels == {"DEBUG", "INFO", "WARNING", "ERROR", "CRITICAL"}

Loaded == startup # "importing"

\* C14 as stated: a value of ENVIRONMENT or LOG_LEVEL that is not a member of
\* its set makes loading raise and leaves no settings object; settings that
\* were loaded hold members of the sets.
C14_ValueOutsideSetRaises ==
    Loaded =>
        /\ (\/ environ.ENVIRONMENT \notin Environments \cup {Absent}
            \/ environ.LOG_LEVEL \notin LogLevels \cup {Absent})
              => (startup = "failed" /\ settings = NoSettings)
        /\ startup = "running" =>
              (settings.ENVIRONMENT \in Environments /\ settings.LOG_LEVEL \in LogLevels)

\* C14, amended: loading raises, no settings object exists and no request is
\* ever served exactly when the lower-cased ENVIRONMENT or the upper-cased
\* LOG_LEVEL is not a member of its set; settings that were loaded hold the
\* lower-cased ENVIRONMENT and the upper-cased LOG_LEVEL (the default where the
\* variable is not set), both members of the sets.
C14_ValueOutsideSetRaises_CaseFolded ==
    LET bad == \/ (environ.ENVIRONMENT # Absent /\ lower(environ.ENVIRONMENT) \notin Environments)
               \/ (environ.LOG_LEVEL # Absent /\ upper(environ.LOG_LEVEL) \notin LogLevels)
    IN  /\ startup = "importing" => (settings = NoSettings /\ NoTraffic)
        /\ (Loaded /\ bad) => (startup = "failed" /\ settings = NoSettings /\ NoTraffic)
        /\ (Loaded /\ ~bad) =>
              /\ startup = "running"
              /\ settings.ENVIRONMENT \in Environments
              /\ settings.LOG_LEVEL \in LogLevels
              /\ settings.ENVIRONMENT = IF environ.ENVIRONMENT = Absent THEN "development"
                                        ELSE lower(environ.ENVIRONMENT)
              /\ settings.LOG_LEVEL = IF environ.LOG_LEVEL = Absent THEN "INFO"
                                      ELSE upper(environ.LOG_LEVEL)

\* loading raised on an unrecognized ENVIRONMENT although LOG_LEVEL was valid
C14_Witness ==
    /\ startup = "failed"
    /\ environ.ENVIRONMENT = "prod"
    /\ environ.LOG_LEVEL = "debug"
    /\ settings = NoSettings

----------------------------------------------------------------------------
(* C16 *)

\* C16: when request.state holds no request id, every log record of
\* LoggingMiddleware and of the four handlers, and the envelope built by each
\* of the four handlers, carries the literal "unknown"; error.request_id is
\* never missing and never null.
C16_UnknownWhenNoRequestId ==
    \A r \in Requests :
        ~Assigned(r) =>
            /\ \A i \in DOMAIN log[r] : log[r][i].request_id = "unknown"
            /\ \A h \in Handlers :
                  (Entered(trace[r], h) /\ result[r].kind = "response") =>
                      /\ "request_id" \in DOMAIN Response(r).body.error
                      /\ Response(r).body.error.request_id = "unknown"

\* a finished request without request id that a handler answered and that
\* LoggingMiddleware logged
C16_Witness ==
    \E r \in Requests :
        /\ Finished(r) /\ ~Assigned(r)
        /\ Entered(trace[r], "validation_exception_handler")
        /\ Len(log[r]) = 3
        /\ Response(r).body.error.request_id = "unknown"

====
